---- MODULE Spec2Model ----
\* Model of production_assistant.py: the screenplay formatter
\* (create_hollywood_pdf) and the free-tier usage counter.
\* Text is a sequence of one-character strings, so that split, strip,
\* startswith, endswith, isupper, upper and replace are computed on characters.
EXTENDS Integers, Sequences, FiniteSets, TLC

VARIABLES script_text, logline, image, shotlist,
          pc, pages, tmp_file, lines, idx, is_dialogue_block, log, appendix,
          result,
          db, today, openai_api_key, handler, any_success

fvars == <<script_text, logline, image, shotlist, pc, pages, tmp_file, lines,
           idx, is_dialogue_block, log, appendix, result>>

uvars == <<db, today, openai_api_key, handler, any_success>>

vars == <<fvars, uvars>>

\* ---------------------------------------------------------------- bounds
\* Number of lines in the generated script texts.
MaxLines == 3
\* Length of the generated shot-list texts.
MaxShotLen == 5
\* Browser sessions open on the app; they share the URL's user_id.
NumSessions == 2
\* Days that pass while the server process runs.
MaxDay == 1

\* ------------------------------------------------------------ characters
UpperSeq == <<"A","B","C","D","E","F","G","H","I","J","K","L","M",
              "N","O","P","Q","R","S","T","U","V","W","X","Y","Z">>
LowerSeq == <<"a","b","c","d","e","f","g","h","i","j","k","l","m",
              "n","o","p","q","r","s","t","u","v","w","x","y","z">>
UpperChars == {UpperSeq[i] : i \in 1..Len(UpperSeq)}
LowerChars == {LowerSeq[i] : i \in 1..Len(LowerSeq)}
\* Characters str.strip() removes.
Whitespace == {" ", "\t", "\r", "\n"}
\* A character outside Latin-1 (an em dash, U+2014).
EmDash == "U+2014"
NonLatin1 == {EmDash}
None == "None"

\* ------------------------------------------------------- string helpers
\* str.startswith / str.endswith
StartsWith(s, p) == Len(s) >= Len(p) /\ SubSeq(s, 1, Len(p)) = p
EndsWith(s, p) == Len(s) >= Len(p) /\ SubSeq(s, Len(s) - Len(p) + 1, Len(s)) = p

\* str.strip(): drop leading and trailing whitespace
Strip(s) ==
  LET keep == {i \in 1..Len(s) : s[i] \notin Whitespace}
  IN IF keep = {} THEN <<>>
     ELSE LET lo == CHOOSE i \in keep : \A j \in keep : i <= j
              hi == CHOOSE i \in keep : \A j \in keep : j <= i
          IN SubSeq(s, lo, hi)

\* str.isupper(): at least one cased character and no lower-case one
IsUpper(s) ==
  /\ \E i \in 1..Len(s) : s[i] \in UpperChars
  /\ \A i \in 1..Len(s) : s[i] \notin LowerChars

\* str.upper()
UpperChar(c) ==
  IF c \in LowerChars
  THEN UpperSeq[CHOOSE i \in 1..Len(LowerSeq) : LowerSeq[i] = c]
  ELSE c
Upper(s) == [i \in 1..Len(s) |-> UpperChar(s[i])]

\* Split without the empty piece after a final newline (str.splitlines)
RECURSIVE Split_DropTrailing(_)
Split_DropTrailing(s) ==
  LET nl == {i \in 1..Len(s) : s[i] = "\n"}
  IN IF nl = {} THEN (IF s = <<>> THEN <<>> ELSE <<s>>)
     ELSE LET k == CHOOSE i \in nl : \A j \in nl : i <= j
          IN <<SubSeq(s, 1, k - 1)>> \o Split_DropTrailing(SubSeq(s, k + 1, Len(s)))

\* str.split('\n')
RECURSIVE Split(_)
Split(s) ==
  LET nl == {i \in 1..Len(s) : s[i] = "\n"}
  IN IF nl = {} THEN <<s>>
     ELSE LET k == CHOOSE i \in nl : \A j \in nl : i <= j
          IN <<SubSeq(s, 1, k - 1)>> \o Split(SubSeq(s, k + 1, Len(s)))

\* str.replace(old, new): leftmost, non-overlapping occurrences
RECURSIVE Replace(_, _, _)
Replace(s, old, new) ==
  IF Len(s) < Len(old) THEN s
  ELSE IF StartsWith(s, old)
       THEN new \o Replace(SubSeq(s, Len(old) + 1, Len(s)), old, new)
       ELSE <<s[1]>> \o Replace(Tail(s), old, new)

\* s contains the substring p
Contains(s, p) ==
  \E i \in 1..(Len(s) - Len(p) + 1) : SubSeq(s, i, i + Len(p) - 1) = p

\* FPDF writes text as Latin-1: text with a character outside it raises
Latin1Safe(s) == \A i \in 1..Len(s) : s[i] \notin NonLatin1

\* n copies of the character c
Rep(c, n) == [i \in 1..n |-> c]

\* lines joined by "\n"
RECURSIVE Join(_)
Join(ls) ==
  IF ls = <<>> THEN <<>>
  ELSE IF Len(ls) = 1 THEN ls[1]
  ELSE ls[1] \o <<"\n">> \o Join(Tail(ls))


\* ---------------------------------------------------- layout constants
LeftMarginX == 38
CharacterX == 94
ParentheticalX == 79
DialogueX == 63
DialogueW == 90
TransitionX == 152
CharNameMaxLen == 40

LineClass == {"Blank", "SceneHeading", "CharacterName", "Parenthetical",
              "Dialogue", "Transition", "Action"}

\* ---------------------------------------------------------------- inputs
ScenarioA == <<"I","N","T","."," ","R","O","O","M"," ","-"," ","D","A","Y","\n","J","O","H","N","\n","H","e","l","l","o"," ","t","h","e","r","e",".","\n">>
ScenarioB == <<"(","q","u","i","e","t","l","y",")","\n">>
ScenarioC == <<"C","U","T"," ","T","O",":","\n">>
ScenarioD == <<"S","h","e"," ","w","a","l","k","s"," ","a","w","a","y"," ","s","l","o","w","l","y",".","\n">>
\* a cue, a parenthetical, dialogue, an upper-case line inside the block,
\* a blank line and an action line
ScenarioF == <<"J","O","H","N","\n","(","q","u","i","e","t","l","y",")","\n","H","e","l","l","o",".","\n","S","T","O","P","\n","\n","H","e"," ","r","u","n","s",".">>
\* a block closed by a blank line, then a second block
ScenarioG == <<"J","O","H","N","\n","H","i",".","\n","\n","M","A","R","Y","\n","(","q","u","i","e","t","l","y",")","\n","N","o",".">>
ScenarioScripts ==
  {ScenarioA, ScenarioB, ScenarioC, ScenarioD, ScenarioF, ScenarioG}

ScenarioE == <<"|"," ","S","h","o","t"," ","1"," ","|"," ","W","i","d","e"," ","|","\n","-","-","-","\n">>

\* Lines the generated script texts are made of.
LineSet ==
  { <<>>,
    <<" ", "\t">>,
    <<"I","N","T",".">>,
    <<" ","E","X","T","."," ","b"," ">>,
    <<"I","/","E",".">>,
    <<"i","n","t",".">>,
    <<"J","O">>,
    <<"(","a",")">>,
    <<"(","A",")">>,
    <<"(","a">>,
    <<"H","i",".">>,
    <<"1",".">>,
    <<"T","O",":">>,
    <<"a","T","O",":">>,
    <<"a", EmDash>>,
    Rep("A", CharNameMaxLen - 1),
    Rep("A", CharNameMaxLen),
    Rep("A", CharNameMaxLen - 3) \o <<"T","O",":">> }

SeqsUpTo(S, n) == UNION {[1..k -> S] : k \in 0..n}

Scripts == {Join(ls) : ls \in SeqsUpTo(LineSet, MaxLines)} \cup ScenarioScripts

Loglines == {<<>>, <<"L","o","g">>, <<"a", EmDash>>}

\* None, an image that saves as JPEG, and one that does not (alpha channel)
Images == {None, "rgb", "rgba"}

ShotChars == {"|", "-", "a"}
\* An optional text: Python's None, or a str
NoText == [given |-> FALSE, text |-> <<>>]
Some(t) == [given |-> TRUE, text |-> t]
\* Python truthiness of an optional str
Truthy(o) == o.given /\ o.text # <<>>

ShotLists ==
  {NoText, Some(ScenarioE), Some(<<"a", EmDash>>)}
    \cup {Some(t) : t \in SeqsUpTo(ShotChars, MaxShotLen)}


\* ------------------------------------------------- the line classifier
\* ClassOf with the character-cue test ahead of the scene-heading test
ClassOf_NameFirst(line, flag) ==
  IF line = <<>> THEN "Blank"
  ELSE IF IsUpper(line) /\ Len(line) < CharNameMaxLen /\ ~flag
       THEN "CharacterName"
  ELSE IF \/ StartsWith(line, <<"I","N","T",".">>)
          \/ StartsWith(line, <<"E","X","T",".">>)
          \/ StartsWith(line, <<"I","/","E",".">>)
       THEN "SceneHeading"
  ELSE IF StartsWith(line, <<"(">>) /\ EndsWith(line, <<")">>)
       THEN "Parenthetical"
  ELSE IF flag THEN "Dialogue"
  ELSE IF EndsWith(line, <<"T","O",":">>) /\ IsUpper(line) THEN "Transition"
  ELSE "Action"

\* ClassOf with the length limit of a character cue off by one
ClassOf_ShortLimit(line, flag) ==
  IF line = <<>> THEN "Blank"
  ELSE IF \/ StartsWith(line, <<"I","N","T",".">>)
          \/ StartsWith(line, <<"E","X","T",".">>)
          \/ StartsWith(line, <<"I","/","E",".">>)
       THEN "SceneHeading"
  ELSE IF IsUpper(line) /\ Len(line) < CharNameMaxLen - 1 /\ ~flag
       THEN "CharacterName"
  ELSE IF StartsWith(line, <<"(">>) /\ EndsWith(line, <<")">>)
       THEN "Parenthetical"
  ELSE IF flag THEN "Dialogue"
  ELSE IF EndsWith(line, <<"T","O",":">>) /\ IsUpper(line) THEN "Transition"
  ELSE "Action"

\* ClassOf with the dialogue test ahead of the parenthetical test
ClassOf_DialogueFirst(line, flag) ==
  IF line = <<>> THEN "Blank"
  ELSE IF \/ StartsWith(line, <<"I","N","T",".">>)
          \/ StartsWith(line, <<"E","X","T",".">>)
          \/ StartsWith(line, <<"I","/","E",".">>)
       THEN "SceneHeading"
  ELSE IF IsUpper(line) /\ Len(line) < CharNameMaxLen /\ ~flag
       THEN "CharacterName"
  ELSE IF flag THEN "Dialogue"
  ELSE IF StartsWith(line, <<"(">>) /\ EndsWith(line, <<")">>)
       THEN "Parenthetical"
  ELSE IF EndsWith(line, <<"T","O",":">>) /\ IsUpper(line) THEN "Transition"
  ELSE "Action"

\* The branch of the if/elif chain of the line loop taken by a stripped line.
ClassOf(line, flag) ==
  IF line = <<>> THEN "Blank"
  ELSE IF \/ StartsWith(line, <<"I","N","T",".">>)
          \/ StartsWith(line, <<"E","X","T",".">>)
          \/ StartsWith(line, <<"I","/","E",".">>)
       THEN "SceneHeading"
  ELSE IF IsUpper(line) /\ Len(line) < CharNameMaxLen /\ ~flag
       THEN "CharacterName"
  ELSE IF StartsWith(line, <<"(">>) /\ EndsWith(line, <<")">>)
       THEN "Parenthetical"
  ELSE IF flag THEN "Dialogue"
  ELSE IF EndsWith(line, <<"T","O",":">>) /\ IsUpper(line) THEN "Transition"
  ELSE "Action"

\* FlagAfter with a parenthetical closing the dialogue block
FlagAfter_ParenResets(cls, flag) ==
  CASE cls \in {"Blank", "SceneHeading", "Action", "Parenthetical"} -> FALSE
    [] cls = "CharacterName" -> TRUE
    [] OTHER -> flag

\* FlagAfter with a blank line leaving the dialogue block open
FlagAfter_BlankKeeps(cls, flag) ==
  CASE cls \in {"SceneHeading", "Action"} -> FALSE
    [] cls = "CharacterName" -> TRUE
    [] OTHER -> flag

\* is_dialogue_block after the branch has run
FlagAfter(cls, flag) ==
  CASE cls \in {"Blank", "SceneHeading", "Action"} -> FALSE
    [] cls = "CharacterName" -> TRUE
    [] OTHER -> flag

\* The call on the pdf object made by the branch.
Render(cls, line) ==
  CASE cls = "Blank" ->
         [op |-> "ln", x |-> 0, w |-> 0, bold |-> FALSE, text |-> <<>>]
    [] cls = "SceneHeading" ->
         [op |-> "cell", x |-> LeftMarginX, w |-> 0, bold |-> TRUE,
          text |-> Upper(line)]
    [] cls = "CharacterName" ->
         [op |-> "cell", x |-> CharacterX, w |-> 0, bold |-> FALSE, text |-> line]
    [] cls = "Parenthetical" ->
         [op |-> "cell", x |-> ParentheticalX, w |-> 0, bold |-> FALSE,
          text |-> line]
    [] cls = "Dialogue" ->
         [op |-> "multi_cell", x |-> DialogueX, w |-> DialogueW, bold |-> FALSE,
          text |-> line]
    [] cls = "Transition" ->
         [op |-> "cell", x |-> TransitionX, w |-> 0, bold |-> FALSE, text |-> line]
    [] OTHER ->
         [op |-> "multi_cell", x |-> LeftMarginX, w |-> 0, bold |-> FALSE,
          text |-> line]

\* CleanShotlist without the second replace
CleanShotlist_OnlyPipes(t) == Replace(t, <<"|">>, <<" ", " ">>)

\* shotlist.replace("|", "  ").replace("---", "")
CleanShotlist(t) == Replace(Replace(t, <<"|">>, <<" ", " ">>), <<"-","-","-">>, <<>>)

\* ------------------------------------------------ create_hollywood_pdf
FormatterInit ==
  /\ \/ /\ script_text \in Scripts
        /\ logline = <<"L","o","g">>
        /\ \/ image = None /\ shotlist = NoText
           \/ image = "rgb" /\ shotlist = Some(ScenarioE)
     \/ /\ script_text \in ScenarioScripts
        /\ logline \in Loglines
        /\ image \in Images
        /\ shotlist \in ShotLists
  /\ pc = "start"
  /\ pages = 0
  /\ tmp_file = "none"
  /\ lines = <<>>
  /\ idx = 0
  /\ is_dialogue_block = FALSE
  /\ log = <<>>
  /\ appendix = NoText
  /\ result = None

\* the call raises: the exception leaves create_hollywood_pdf
Raise ==
  /\ pc' = "failed"
  /\ result' = "error"

\* new document, first page, margins, the logline block
Setup ==
  /\ pc = "start"
  /\ UNCHANGED uvars
  /\ pages' = 1
  /\ IF Latin1Safe(logline)
     THEN pc' = "image" /\ UNCHANGED result
     ELSE Raise
  /\ UNCHANGED <<script_text, logline, image, shotlist, tmp_file, lines, idx,
                 is_dialogue_block, log, appendix>>

\* the image block: NamedTemporaryFile(delete=False), image.save, pdf.image
ImageSection ==
  /\ pc = "image"
  /\ UNCHANGED uvars
  /\ IF image = None
     THEN /\ pc' = "script"
          /\ UNCHANGED <<tmp_file, result>>
     ELSE /\ tmp_file' = "exists"
          /\ IF image = "rgb"
             THEN pc' = "script" /\ UNCHANGED result
             ELSE Raise
  /\ UNCHANGED <<script_text, logline, image, shotlist, pages, lines, idx,
                 is_dialogue_block, log, appendix>>

\* the "SCENE SCRIPT:" heading, the split, the flag's initial value
ScriptSection ==
  /\ pc = "script"
  /\ UNCHANGED uvars
  /\ lines' = Split(script_text)
  /\ idx' = 1
  /\ is_dialogue_block' = FALSE
  /\ pc' = "loop"
  /\ UNCHANGED <<script_text, logline, image, shotlist, pages, tmp_file, log,
                 appendix, result>>

\* one iteration of the line loop
ProcessLine ==
  /\ pc = "loop"
  /\ UNCHANGED uvars
  /\ idx <= Len(lines)
  /\ LET line == Strip(lines[idx])
         cls == ClassOf(line, is_dialogue_block)
         r == Render(cls, line)
     IN IF Latin1Safe(r.text)
        THEN /\ log' = Append(log, [cls |-> cls, line |-> line,
                                    before |-> is_dialogue_block,
                                    after |-> FlagAfter(cls, is_dialogue_block),
                                    call |-> r])
             /\ is_dialogue_block' = FlagAfter(cls, is_dialogue_block)
             /\ idx' = idx + 1
             /\ UNCHANGED <<pc, result>>
        ELSE /\ Raise
             /\ UNCHANGED <<log, is_dialogue_block, idx>>
  /\ UNCHANGED <<script_text, logline, image, shotlist, pages, tmp_file, lines,
                 appendix>>

\* after the loop: the shot list appendix
ShotListAppendix ==
  /\ pc = "loop"
  /\ UNCHANGED uvars
  /\ idx > Len(lines)
  /\ IF Truthy(shotlist)
     THEN /\ pages' = pages + 1
          /\ IF Latin1Safe(CleanShotlist(shotlist.text))
             THEN /\ appendix' = Some(CleanShotlist(shotlist.text))
                  /\ pc' = "output"
                  /\ UNCHANGED result
             ELSE /\ Raise
                  /\ UNCHANGED appendix
     ELSE /\ pc' = "output"
          /\ UNCHANGED <<pages, appendix, result>>
  /\ UNCHANGED <<script_text, logline, image, shotlist, tmp_file, lines, idx,
                 is_dialogue_block, log>>

\* pdf.output(dest="S").encode("latin-1") and the return
Output ==
  /\ pc = "output"
  /\ UNCHANGED uvars
  /\ pc' = "done"
  /\ result' = "bytes"
  /\ UNCHANGED <<script_text, logline, image, shotlist, pages, tmp_file, lines,
                 idx, is_dialogue_block, log, appendix>>


\* ------------------------------------------------------ the usage counter
FREE_TIER_DAILY_LIMIT == 20

Sessions == 1..NumSessions
user_id == "u1"
Users == {user_id}
Buttons == {"write", "analyze", "shot", "image"}
Tasks == {"Summarize", "Generate Logline", "Scene Breakdown", "Music Suggestions"}

\* Return values of get_llm_response: the model's text, which may itself
\* contain the word "Error", or the error string built in the except branch.
\* A cached call returns one of the same values.
OkText == <<"O","K">>
OkTextWithError == <<"E","r","r","o","r","s"," ","o","k">>
ErrorText == <<"H","F"," ","E","r","r","o","r",":"," ","x">>
LLMReturns == {[ok |-> TRUE, text |-> OkText],
               [ok |-> TRUE, text |-> OkTextWithError],
               [ok |-> FALSE, text |-> ErrorText]}
\* Return values of get_image_response
ImageReturns == {"image", "loading_error", "busy_error", None}

\* get_global_usage_db(): the dict, users not yet in it marked absent
UsageInit ==
  /\ db = [u \in Users |-> [present |-> FALSE, count |-> 0, date |-> 0]]
  /\ today = 0
  /\ openai_api_key = [s \in Sessions |-> FALSE]
  /\ handler = [s \in Sessions |-> "idle"]
  /\ any_success = [s \in Sessions |-> FALSE]

\* the dict after check_usage_limit's initialisation and day reset
CheckedDb(s) ==
  IF openai_api_key[s] THEN db
  ELSE LET d0 == IF db[user_id].present THEN db[user_id]
                 ELSE [present |-> TRUE, count |-> 0, date |-> today]
           d1 == IF d0.date # today
                 THEN [present |-> TRUE, count |-> 0, date |-> today]
                 ELSE d0
       IN [db EXCEPT ![user_id] = d1]

\* the value check_usage_limit returns
check_usage_limit(s) ==
  \/ openai_api_key[s]
  \/ CheckedDb(s)[user_id].count < FREE_TIER_DAILY_LIMIT

\* the dict after increment_usage
increment_usage(s) ==
  IF ~openai_api_key[s] /\ db[user_id].present
  THEN [db EXCEPT ![user_id].count = @ + 1]
  ELSE db

\* "Error" in response
HasError(text) == Contains(text, <<"E","r","r","o","r">>)

\* the sidebar: the provider radio and the key input
Sidebar(s) ==
  /\ handler[s] = "idle"
  /\ \E k \in BOOLEAN : openai_api_key' = [openai_api_key EXCEPT ![s] = k]
  /\ UNCHANGED <<db, today, handler, any_success>>
  /\ UNCHANGED fvars

\* midnight passes
NewDay ==
  /\ today < MaxDay
  /\ today' = today + 1
  /\ UNCHANGED <<db, openai_api_key, handler, any_success>>
  /\ UNCHANGED fvars

\* a button is pressed: check_usage_limit, then the check of the inputs
Press(s) ==
  /\ handler[s] = "idle"
  /\ db' = CheckedDb(s)
  /\ \E b \in Buttons, inputs_given \in BOOLEAN :
       handler' = [handler EXCEPT
                     ![s] = IF check_usage_limit(s) /\ inputs_given
                            THEN b ELSE "idle"]
  /\ any_success' = [any_success EXCEPT ![s] = FALSE]
  /\ UNCHANGED <<today, openai_api_key>>
  /\ UNCHANGED fvars

\* the rest of a handler: pc[s] back to idle, the dict as the handler left it
Finish(s, called_increment, succeeded) ==
  /\ db' = IF called_increment THEN increment_usage(s) ELSE db
  /\ handler' = [handler EXCEPT ![s] = "idle"]
  /\ any_success' = [any_success EXCEPT ![s] = succeeded]
  /\ UNCHANGED <<today, openai_api_key>>
  /\ UNCHANGED fvars

\* Write Scene: one call, counted unless the text contains "Error"
WriteScene(s) ==
  /\ handler[s] = "write"
  /\ \E response \in LLMReturns :
       Finish(s, ~HasError(response.text), response.ok)

\* Analyze Script: one call per selected task, counted when a task ran
AnalyzeScript(s) ==
  /\ handler[s] = "analyze"
  /\ \E tasks \in SUBSET Tasks :
       \E response \in [tasks -> LLMReturns] :
         Finish(s, tasks # {}, \E t \in tasks : response[t].ok)

\* Generate Shot List: one call, counted unless the text contains "Error"
GenerateShotList(s) ==
  /\ handler[s] = "shot"
  /\ \E response \in LLMReturns :
       Finish(s, ~HasError(response.text), response.ok)

\* Generate Image: the optional prompt rewrite, then the image call,
\* counted when an image came back
GenerateImage(s) ==
  /\ handler[s] = "image"
  /\ \E use_magic \in BOOLEAN, magic \in LLMReturns, img \in ImageReturns :
       Finish(s, img = "image", img = "image" \/ (use_magic /\ magic.ok))

\* ------------------------------------------------------- specifications
FormatterIdle ==
  /\ script_text = <<>>
  /\ logline = <<>>
  /\ image = None
  /\ shotlist = NoText
  /\ pc = "idle"
  /\ pages = 0
  /\ tmp_file = "none"
  /\ lines = <<>>
  /\ idx = 0
  /\ is_dialogue_block = FALSE
  /\ log = <<>>
  /\ appendix = NoText
  /\ result = None

Init == FormatterInit /\ UsageInit

Next ==
  \/ Setup
  \/ ImageSection
  \/ ScriptSection
  \/ ProcessLine
  \/ ShotListAppendix
  \/ Output

Spec == Init /\ [][Next]_vars

UsageSpecInit == FormatterIdle /\ UsageInit

UsageNext ==
  \/ NewDay
  \/ \E s \in Sessions :
       \/ Sidebar(s)
       \/ Press(s)
       \/ WriteScene(s)
       \/ AnalyzeScript(s)
       \/ GenerateShotList(s)
       \/ GenerateImage(s)

UsageSpec == UsageSpecInit /\ [][UsageNext]_vars

TypeOK ==
  /\ pc \in {"idle", "start", "image", "script", "loop", "output", "done", "failed"}
  /\ is_dialogue_block \in BOOLEAN
  /\ \A i \in 1..Len(log) : log[i].cls \in LineClass
  /\ \A s \in Sessions : handler[s] \in Buttons \cup {"idle"}
  /\ db[user_id].count \in Nat


\* ================================================================ claims
\* The lines the loop has classified so far.
Done == 1..Len(log)
IsHeadingLine(l) ==
  \/ StartsWith(l, <<"I","N","T",".">>)
  \/ StartsWith(l, <<"E","X","T",".">>)
  \/ StartsWith(l, <<"I","/","E",".">>)
IsParenLine(l) == StartsWith(l, <<"(">>) /\ EndsWith(l, <<")">>)
IsShortUpper(l) == IsUpper(l) /\ Len(l) < CharNameMaxLen
\* the whole script text has been through the loop
LoopOver == pc \in {"loop", "output", "done", "failed"} /\ idx > Len(lines)

\* C1: every stripped line that starts with "INT.", "EXT." or "I/E." is
\* classified SceneHeading whatever the flag was before it, and the flag is
\* false after it.
C1_HeadingAlways ==
  \A i \in Done :
    IsHeadingLine(log[i].line) =>
      /\ log[i].cls = "SceneHeading"
      /\ log[i].after = FALSE
      /\ (i = Len(log) => is_dialogue_block = FALSE)

\* a scene heading met inside a dialogue block and one met outside
C1_Witness ==
  /\ \E i \in Done : IsHeadingLine(log[i].line) /\ log[i].before
  /\ \E i \in Done : IsHeadingLine(log[i].line) /\ ~log[i].before

\* C2 as stated: every line wrapped in parentheses is classified Parenthetical
\* for both flag values and leaves the flag as it was.
C2_Original ==
  \A i \in Done :
    IsParenLine(log[i].line) =>
      log[i].cls = "Parenthetical" /\ log[i].after = log[i].before

\* C2 amended: a line wrapped in parentheses is classified Parenthetical and
\* leaves the flag as it was, unless it is upper-case, shorter than 40
\* characters and met while the flag is false: then it is a CharacterName and
\* the flag becomes true.
C2_Amended ==
  \A i \in Done :
    IsParenLine(log[i].line) =>
      IF IsShortUpper(log[i].line) /\ ~log[i].before
      THEN log[i].cls = "CharacterName" /\ log[i].after = TRUE
      ELSE /\ log[i].cls = "Parenthetical"
           /\ log[i].after = log[i].before
           /\ (i = Len(log) => is_dialogue_block = log[i].before)

\* parentheticals met under both flag values, and an upper-case one as a cue
C2_Witness ==
  /\ \E i \in Done : log[i].cls = "Parenthetical" /\ log[i].before
  /\ \E i \in Done : log[i].cls = "Parenthetical" /\ ~log[i].before
  /\ \E i \in Done : IsParenLine(log[i].line) /\ log[i].cls = "CharacterName"

\* C3: formatting "CUT TO:\n" classifies the line "CUT TO:" as Transition,
\* rendered at the transition x-offset 152.
C3_CutToIsTransition ==
  (script_text = ScenarioC /\ Len(log) >= 1) =>
    /\ log[1].cls = "Transition"
    /\ log[1].call.x = TransitionX

\* C4 as stated: every upper-case line shorter than 40 characters met while
\* the flag is false is a CharacterName and sets the flag; met while the flag
\* is true it is never a CharacterName.
C4_Original ==
  \A i \in Done :
    IsShortUpper(log[i].line) =>
      IF log[i].before
      THEN log[i].cls # "CharacterName"
      ELSE log[i].cls = "CharacterName" /\ log[i].after = TRUE

\* C4 amended: every upper-case line shorter than 40 characters that does not
\* start with "INT.", "EXT." or "I/E.", met while the flag is false, is a
\* CharacterName and sets the flag; met while the flag is true no line is a
\* CharacterName.
C4_Amended ==
  \A i \in Done :
    /\ (IsShortUpper(log[i].line) /\ ~IsHeadingLine(log[i].line)
          /\ ~log[i].before) =>
         /\ log[i].cls = "CharacterName"
         /\ log[i].after = TRUE
         /\ (i = Len(log) => is_dialogue_block = TRUE)
    /\ log[i].before => log[i].cls # "CharacterName"

\* the same upper-case line met with the flag false and with the flag true,
\* and one of the limit's length less one
C4_Witness ==
  /\ \E i, j \in Done :
       /\ log[i].line = log[j].line
       /\ IsShortUpper(log[i].line)
       /\ ~log[i].before /\ log[i].cls = "CharacterName"
       /\ log[j].before /\ log[j].cls # "CharacterName"
  /\ \E i \in Done :
       Len(log[i].line) = CharNameMaxLen - 1 /\ log[i].cls = "CharacterName"

\* classes of the lines that are not blank
RECURSIVE NonBlankClasses(_)
NonBlankClasses(l) ==
  IF l = <<>> THEN <<>>
  ELSE (IF l[1].cls = "Blank" THEN <<>> ELSE <<l[1].cls>>)
         \o NonBlankClasses(Tail(l))

\* C5 as stated: formatting "INT. ROOM - DAY\nJOHN\nHello there.\n" yields
\* SceneHeading, CharacterName, Dialogue in that order, and the flag is true
\* once the whole text has been processed.
C5_Original ==
  (script_text = ScenarioA /\ LoopOver) =>
    /\ NonBlankClasses(log) = <<"SceneHeading", "CharacterName", "Dialogue">>
    /\ is_dialogue_block = TRUE

\* C5 amended: the text splits into four pieces, the last one empty; they are
\* classified SceneHeading, CharacterName, Dialogue, Blank; the flag is true
\* after the third and false once the whole text has been processed.
C5_Amended ==
  (script_text = ScenarioA /\ LoopOver) =>
    /\ Len(log) = 4
    /\ [i \in 1..4 |-> log[i].cls]
         = <<"SceneHeading", "CharacterName", "Dialogue", "Blank">>
    /\ log[3].after = TRUE
    /\ is_dialogue_block = FALSE

\* the scenario text formatted to the end
C5_Witness == script_text = ScenarioA /\ pc = "done" /\ Len(log) = 4

\* C6: when an image is supplied, the temporary file no longer exists when
\* the call ends, on every exit path.
C6_TempFileRemoved ==
  (pc \in {"done", "failed"} /\ image # None) => tmp_file # "exists"

\* text without the characters in drop
RECURSIVE Without(_, _)
Without(t, drop) ==
  IF t = <<>> THEN <<>>
  ELSE (IF t[1] \in drop THEN <<>> ELSE <<t[1]>>) \o Without(Tail(t), drop)

\* runs of one to three spaces
Spaces == {Rep(" ", n) : n \in 1..3}

\* C7 as stated: a non-empty shot list is written on a new page with every
\* "|" and every "---" replaced by spaces; without one no page is added.
C7_Original ==
  pc \in {"output", "done"} =>
    IF Truthy(shotlist)
    THEN /\ pages = 2
         /\ \E a, b \in Spaces :
              appendix = Some(Replace(Replace(shotlist.text, <<"|">>, a),
                                      <<"-","-","-">>, b))
    ELSE pages = 1 /\ appendix = NoText

\* C7 amended: a non-empty shot list is written on a new page after the script
\* lines with every "|" replaced by two spaces and every "---" removed, so the
\* text written contains no "|" and no "---" and keeps every other character;
\* without a shot list, or with an empty one, no page is added.
C7_Amended ==
  pc \in {"output", "done"} =>
    IF Truthy(shotlist)
    THEN /\ pages = 2
         /\ appendix.given
         /\ ~Contains(appendix.text, <<"|">>)
         /\ ~Contains(appendix.text, <<"-","-","-">>)
         /\ Without(appendix.text, {" ", "-"})
              = Without(shotlist.text, {" ", "-", "|"})
         /\ Len(Without(appendix.text, {"-"}))
              = Len(Without(shotlist.text, {"-"}))
                  + Len(shotlist.text) - Len(Without(shotlist.text, {"|"}))
    ELSE pages = 1 /\ appendix = NoText

\* a shot list with a bar and a run of more than three dashes, written
C7_Witness ==
  /\ pc = "done"
  /\ Contains(shotlist.text, <<"|">>)
  /\ Contains(shotlist.text, <<"-","-","-","-">>)
  /\ appendix.given

\* The ordered rule list of the classifier.
RuleOrder == <<"Blank", "SceneHeading", "CharacterName", "Parenthetical",
               "Dialogue", "Transition", "Action">>
RuleMatches(k, l, flag) ==
  CASE k = 1 -> l = <<>>
    [] k = 2 -> IsHeadingLine(l)
    [] k = 3 -> IsShortUpper(l) /\ ~flag
    [] k = 4 -> IsParenLine(l)
    [] k = 5 -> flag
    [] k = 6 -> IsUpper(l) /\ EndsWith(l, <<"T","O",":">>)
    [] OTHER -> TRUE
FirstRule(l, flag) ==
  CHOOSE k \in 1..7 :
    RuleMatches(k, l, flag) /\ \A j \in 1..(k - 1) : ~RuleMatches(j, l, flag)

\* C8: the class of every line is one of the seven LineClass values and is the
\* one chosen by the first matching rule of the ordered list; class and new
\* flag depend only on the line's text and the flag before it.
C8_FirstMatch ==
  /\ \A i \in Done :
       /\ log[i].cls \in LineClass
       /\ log[i].cls = RuleOrder[FirstRule(log[i].line, log[i].before)]
       /\ log[i].line = Strip(lines[i])
       /\ log[i].before = (IF i = 1 THEN FALSE ELSE log[i - 1].after)
  /\ \A i, j \in Done :
       (log[i].line = log[j].line /\ log[i].before = log[j].before) =>
         (log[i].cls = log[j].cls /\ log[i].after = log[j].after)

\* a text whose lines fall into five classes, one line met twice
C8_Witness ==
  /\ Cardinality({log[i].cls : i \in Done}) >= 5
  /\ \E i, j \in Done : i # j /\ log[i].cls = log[j].cls

\* a CharacterName line has been processed and no Blank, SceneHeading or
\* Action line since the most recent one
InBlock ==
  \E j \in Done :
    /\ log[j].cls = "CharacterName"
    /\ \A k \in (j + 1)..Len(log) :
         log[k].cls \notin {"Blank", "SceneHeading", "Action"}

\* C9: after any sequence of lines starting with the flag false, the flag is
\* true iff a CharacterName line has been processed and no Blank, SceneHeading
\* or Action line since; Parenthetical, Dialogue and Transition lines leave it.
C9_FlagIsBlock ==
  pc \in {"loop", "output", "done", "failed"} =>
    /\ is_dialogue_block = InBlock
    /\ \A i \in Done :
         log[i].cls \in {"Parenthetical", "Dialogue", "Transition"} =>
           log[i].after = log[i].before

\* a block closed by a blank line and one still open two lines after its cue
C9_Witness ==
  /\ is_dialogue_block
  /\ \E i \in Done : log[i].cls = "Blank" /\ log[i].before
  /\ Len(log) >= 3
  /\ log[Len(log)].cls \in {"Parenthetical", "Dialogue"}
  /\ log[Len(log) - 1].cls \in {"Parenthetical", "Dialogue"}

\* C10: in every button action the stored count changes only if a model call
\* made during that action returned a successful result.
C10_IncrementOnlyOnSuccess ==
  [][\A s \in Sessions :
       (handler[s] # "idle" /\ handler'[s] = "idle"
          /\ db'[user_id].count # db[user_id].count) => any_success'[s]]_vars

\* C11: for a free-tier user, under any interleaving of button actions from
\* sessions that share the user_id and the usage store, the stored count never
\* exceeds FREE_TIER_DAILY_LIMIT.
C11_CountWithinLimit ==
  db[user_id].present => db[user_id].count <= FREE_TIER_DAILY_LIMIT

====
